---- MODULE Spec2Model ----
(***************************************************************************)
(* Model of the Cap proof-of-work engine (src/src/cap/index.ts) running    *)
(* on the Durable Object SQL store (src/src/cap/DurableObject.ts).         *)
(*                                                                         *)
(* Strings are sequences of character codes.  A 32-bit word is a pair      *)
(* <<hi, lo>> of 16-bit halves, so that no intermediate value leaves the   *)
(* range of the model checker's integers.                                  *)
(***************************************************************************)
EXTENDS Integers, Sequences, FiniteSets, TLC

\* ------------------------------------------------------------------------
\* 32-bit word arithmetic (JavaScript's ^, <<, >>>, + on int32 / uint32)
\* ------------------------------------------------------------------------

Only(S) == CHOOSE r \in S : TRUE

Pow2(n) ==
  CASE n = 0 -> 1 [] n = 1 -> 2 [] n = 2 -> 4 [] n = 3 -> 8 [] n = 4 -> 16
    [] n = 5 -> 32 [] n = 6 -> 64 [] n = 7 -> 128 [] n = 8 -> 256
    [] n = 9 -> 512 [] n = 10 -> 1024 [] n = 11 -> 2048 [] n = 12 -> 4096
    [] n = 13 -> 8192 [] n = 14 -> 16384 [] n = 15 -> 32768 [] n = 16 -> 65536

RECURSIVE BitXor(_, _)
BitXor(a, b) ==
  IF a = 0 THEN b
  ELSE IF b = 0 THEN a
  ELSE (((a % 2) + (b % 2)) % 2) + 2 * BitXor(a \div 2, b \div 2)

RECURSIVE BitAnd(_, _)
BitAnd(a, b) ==
  IF a = 0 \/ b = 0 THEN 0
  ELSE ((a % 2) * (b % 2)) + 2 * BitAnd(a \div 2, b \div 2)

XorTab == [a \in 0..15 |-> [b \in 0..15 |-> BitXor(a, b)]]

AndTab == [a \in 0..15 |-> [b \in 0..15 |-> BitAnd(a, b)]]

Xor8(a, b) == XorTab[a % 16][b % 16] + (16 * XorTab[a \div 16][b \div 16])

Xor16(a, b) == Xor8(a % 256, b % 256) + (256 * Xor8(a \div 256, b \div 256))

And8(a, b) == AndTab[a % 16][b % 16] + (16 * AndTab[a \div 16][b \div 16])

And16(a, b) == And8(a % 256, b % 256) + (256 * And8(a \div 256, b \div 256))

Xor32(x, y) == <<Xor16(x[1], y[1]), Xor16(x[2], y[2])>>

And32(x, y) == <<And16(x[1], y[1]), And16(x[2], y[2])>>

Not32(x) == <<65535 - x[1], 65535 - x[2]>>

Add32(x, y) ==
  LET lo == x[2] + y[2]
  IN <<(x[1] + y[1] + (lo \div 65536)) % 65536, lo % 65536>>

\* x << n, the low 32 bits
Shl(x, n) ==
  IF n >= 16 THEN <<(x[2] % Pow2(32 - n)) * Pow2(n - 16), 0>>
  ELSE <<((x[1] % Pow2(16 - n)) * Pow2(n)) + (x[2] \div Pow2(16 - n)),
         (x[2] % Pow2(16 - n)) * Pow2(n)>>

\* x >>> n
Shr(x, n) ==
  IF n >= 16 THEN <<0, x[1] \div Pow2(n - 16)>>
  ELSE <<x[1] \div Pow2(n), (x[2] \div Pow2(n)) + ((x[1] % Pow2(n)) * Pow2(16 - n))>>

Rotr(x, n) ==
  LET y == IF n >= 16 THEN <<x[2], x[1]>> ELSE x
      m == IF n >= 16 THEN n - 16 ELSE n
  IN <<(y[1] \div Pow2(m)) + ((y[2] % Pow2(m)) * Pow2(16 - m)),
       (y[2] \div Pow2(m)) + ((y[1] % Pow2(m)) * Pow2(16 - m))>>

\* ------------------------------------------------------------------------
\* Strings
\* ------------------------------------------------------------------------

\* b.toString(16) of one hex digit: "0".."9", "a".."f"
HexChar(d) == IF d < 10 THEN 48 + d ELSE 87 + d

\* rnd.toString(16).padStart(8, "0") of a 32-bit word
WordHex(x) ==
  [i \in 1..8 |->
     LET half == IF i <= 4 THEN x[1] ELSE x[2]
         k == (i - 1) % 4
     IN HexChar((half \div Pow2(4 * (3 - k))) % 16)]

RECURSIVE NatString(_)
NatString(n) ==
  IF n < 10 THEN <<48 + n>> ELSE Append(NatString(n \div 10), 48 + (n % 10))

\* String(n) of an integer: what `${i}` and salt + solutions[idx] produce
NumberString(n) == IF n < 0 THEN <<45>> \o NatString(0 - n) ELSE NatString(n)

\* str.startsWith(prefix)
StartsWith(str, prefix) ==
  /\ Len(prefix) <= Len(str)
  /\ \A i \in 1..Len(prefix) : str[i] = prefix[i]

\* ------------------------------------------------------------------------
\* prng (index.ts 55-82)
\* ------------------------------------------------------------------------

FnvOffset == <<33052, 40389>>

\* one pass of the loop body: hash ^= code; hash += shifts
FnvStep(hash, code) ==
  LET h == Xor32(hash, <<0, code>>)
  IN Add32(h, Add32(Add32(Add32(Shl(h, 1), Shl(h, 4)), Add32(Shl(h, 7), Shl(h, 8))),
                    Shl(h, 24)))

RECURSIVE FnvLoop(_, _, _)
FnvLoop(hash, str, i) ==
  IF i > Len(str) THEN hash
  ELSE Only({FnvLoop(h, str, i + 1) : h \in {FnvStep(hash, str[i])}})

fnv1a(str) == FnvLoop(FnvOffset, str, 1)

\* next(): the xorshift step, returning the new state
XorShift(state) ==
  LET a == Xor32(state, Shl(state, 13))
      b == Xor32(a, Shr(a, 17))
  IN Xor32(b, Shl(b, 5))

RECURSIVE PrngLoop(_, _, _)
PrngLoop(state, result, length) ==
  IF ~(Len(result) < length) THEN result
  ELSE Only({PrngLoop(s, result \o WordHex(s), length) : s \in {XorShift(state)}})

\* prng without the final substring(0, length)
prngUncut(seed, length) == PrngLoop(fnv1a(seed), <<>>, length)

\* lines 76-81: rounds until result.length >= length, then substring(0, length)
prng(seed, length) == SubSeq(PrngLoop(fnv1a(seed), <<>>, length), 1, length)

\* ------------------------------------------------------------------------
\* sha256Hex (index.ts 92-98): SHA-256 of the bytes of an ASCII string
\* ------------------------------------------------------------------------

ShaK ==
  <<
     <<17034,12184>>, <<28983,17553>>, <<46528,64463>>, <<59829,56229>>, <<14678,49755>>, <<23025,4593>>,
     <<37439,33444>>, <<43804,24277>>, <<55303,43672>>, <<4739,23297>>, <<9265,34238>>, <<21772,32195>>,
     <<29374,23924>>, <<32990,45566>>, <<39900,1703>>, <<49563,61812>>, <<58523,27073>>, <<61374,18310>>,
     <<4033,40390>>, <<9228,41420>>, <<11753,11375>>, <<19060,33962>>, <<23728,43484>>, <<30457,35034>>,
     <<38974,20818>>, <<43057,50797>>, <<45059,10184>>, <<48985,32711>>, <<50912,3059>>, <<54695,37191>>,
     <<1738,25425>>, <<5161,10599>>, <<10167,2693>>, <<11803,8504>>, <<19756,28156>>, <<21304,3347>>,
     <<25866,29524>>, <<30314,2747>>, <<33218,51502>>, <<37490,11397>>, <<41663,59553>>, <<43034,26187>>,
     <<49739,35696>>, <<51052,20899>>, <<53650,59417>>, <<54937,1572>>, <<62478,13701>>, <<4202,41072>>,
     <<6564,49430>>, <<7735,27656>>, <<10056,30540>>, <<13488,48309>>, <<14620,3251>>, <<20184,43594>>,
     <<23452,51791>>, <<26670,28659>>, <<29839,33518>>, <<30885,25455>>, <<33992,30740>>, <<36039,520>>,
     <<37054,65530>>, <<42064,27883>>, <<48889,41975>>, <<50801,30962>> >>

ShaH0 ==
  <<
     <<27145,58983>>, <<47975,44677>>, <<15470,62322>>, <<42319,62778>>, <<20750,21119>>, <<39685,26764>>,
     <<8067,55723>>, <<23520,52505>> >>

Xor3(x, y, z) == Xor32(Xor32(x, y), z)

BigSigma0(x) == Xor3(Rotr(x, 2), Rotr(x, 13), Rotr(x, 22))

BigSigma1(x) == Xor3(Rotr(x, 6), Rotr(x, 11), Rotr(x, 25))

SmallSigma0(x) == Xor3(Rotr(x, 7), Rotr(x, 18), Shr(x, 3))

SmallSigma1(x) == Xor3(Rotr(x, 17), Rotr(x, 19), Shr(x, 10))

Ch(x, y, z) == Xor32(And32(x, y), And32(Not32(x), z))

Maj(x, y, z) == Xor3(And32(x, y), And32(x, z), And32(y, z))

\* the message, 0x80, zero fill, and the bit length as 64-bit big-endian
ShaPad(msg) ==
  LET n == Len(msg)
      bits == n * 8
  IN msg \o <<128>> \o [i \in 1..((119 - n) % 64) |-> 0] \o <<0, 0, 0, 0>>
       \o <<(bits \div 16777216) % 256, (bits \div 65536) % 256,
            (bits \div 256) % 256, bits % 256>>

BlockWords(p, b) ==
  [i \in 1..16 |->
     LET o == ((b - 1) * 64) + ((i - 1) * 4)
     IN <<(p[o + 1] * 256) + p[o + 2], (p[o + 3] * 256) + p[o + 4]>>]

\* w extended by the next `count` words of the message schedule
RECURSIVE Extend(_, _)
Extend(w, count) ==
  IF count = 1
    THEN LET t == Len(w) + 1
         IN Append(w, Add32(Add32(SmallSigma1(w[t - 2]), w[t - 7]),
                            Add32(SmallSigma0(w[t - 15]), w[t - 16])))
    ELSE Only({Extend(q, count - (count \div 2)) : q \in {Extend(w, count \div 2)}})

Schedule(w) == Extend([i \in 1..16 |-> w[i]], 48)

Round(s, w, t) ==
  Only({<<Add32(t1, t2), s[1], s[2], s[3], Add32(s[4], t1), s[5], s[6], s[7]>> :
          t1 \in {Add32(Add32(Add32(s[8], BigSigma1(s[5])), Ch(s[5], s[6], s[7])),
                        Add32(ShaK[t], w[t]))},
          t2 \in {Add32(BigSigma0(s[1]), Maj(s[1], s[2], s[3]))}})

RECURSIVE Rounds(_, _, _, _)
Rounds(s, w, lo, hi) ==
  IF lo = hi THEN Round(s, w, lo)
  ELSE LET mid == (lo + hi) \div 2
       IN Only({Rounds(q, w, mid + 1, hi) : q \in {Rounds(s, w, lo, mid)}})

Compress(h, blockWords) ==
  Only({<<Add32(h[1], s[1]), Add32(h[2], s[2]), Add32(h[3], s[3]), Add32(h[4], s[4]),
          Add32(h[5], s[5]), Add32(h[6], s[6]), Add32(h[7], s[7]), Add32(h[8], s[8])>> :
          s \in {Only({Rounds(h, w, 1, 64) : w \in {Schedule(blockWords)}})}})

RECURSIVE ShaBlocks(_, _, _)
ShaBlocks(h, p, b) ==
  IF (b - 1) * 64 >= Len(p) THEN h
  ELSE Only({ShaBlocks(g, p, b + 1) : g \in {Compress(h, BlockWords(p, b))}})

\* the digest as 64 lowercase hex characters
Sha256Digest(input) ==
  Only({[i \in 1..64 |->
           LET wd == h[((i - 1) \div 8) + 1]
               half == IF ((i - 1) % 8) < 4 THEN wd[1] ELSE wd[2]
               k == (i - 1) % 4
           IN HexChar((half \div Pow2(4 * (3 - k))) % 16)] :
          h \in {ShaBlocks(ShaH0, ShaPad(input), 1)}})

\* sha256Hex is looked up in a table built once from Sha256Digest
\* (HashInputs is defined with the inputs below)

\* ------------------------------------------------------------------------
\* Bounds and input pools
\* ------------------------------------------------------------------------

\* request slots: calls that can be in flight together
MaxCalls == 2

\* challenge tokens createChallenge may draw
MaxChallenges == 1

\* verification tokens redeemChallenge may issue
MaxTokens == 2

\* how many times the clock is observed to move
MaxTicks == 2

\* Date.now() when the object is constructed
StartTime == 1000

Calls == 1..MaxCalls

\* randomHex(25) draws, shortened: "01de", "01f2", "0000"
TokenSeq == <<<<48, 49, 100, 101>>, <<48, 49, 102, 50>>, <<48, 48, 48, 48>>>>

\* randomHex(15) draws, shortened: "5e", "7f", "9a"
SecretSeq == <<<<53, 101>>, <<55, 102>>, <<57, 97>>>>

\* randomHex(8) draws, shortened: "a1"
IdPool == {<<97, 49>>}

\* program constants of createChallenge and redeemChallenge
DefaultChallengeCount == 50

DefaultChallengeSize == 32

DefaultChallengeDifficulty == 4

DefaultExpiresMs == 600000

TokenTtlMs == 20 * 60 * 1000

\* JavaScript values reaching the engine: [t |-> typeof, v |-> string content]
Undefined == [t |-> "undefined", v |-> <<>>]

Str(s) == [t |-> "string", v |-> s]

NumberValue(s) == [t |-> "number", v |-> s]

\* !x
Falsy(x) == x.t = "undefined" \/ (x.t = "string" /\ x.v = <<>>)

\* solutions values: undefined, a non-array object, or an array of entries;
\* an entry is a number n or a string
NoSolutions == [t |-> "undefined", v |-> <<>>]

ObjectSolutions == [t |-> "object", v |-> <<>>]

Num(n) == [t |-> "number", n |-> n]

StrEntry == [t |-> "string", n |-> 0]

Arr(a) == [t |-> "array", v |-> a]

\* the conf argument of createChallenge; 0 - 1 stands for an unset field
Unset == 0 - 1

NoConf == [challengeCount |-> Unset, challengeSize |-> Unset, challengeDifficulty |-> Unset,
           expiresMs |-> Unset, store |-> "unset"]

Confs ==
  { NoConf,
    [challengeCount |-> 2, challengeSize |-> 4, challengeDifficulty |-> 1,
     expiresMs |-> Unset, store |-> "true"],
    [challengeCount |-> 2, challengeSize |-> 4, challengeDifficulty |-> 1,
     expiresMs |-> 1, store |-> "false"] }

\* the tokens and secrets that can come into use within the bounds
PoolTokens == {Str(TokenSeq[k]) : k \in 1..MaxChallenges}

\* [1,2] solves "01de" under (2,4,1); [1,0] solves "01f2"
SolutionArrays ==
  { <<Num(1)>>, <<Num(1), Num(2)>>, <<Num(1), Num(0)>>, <<Num(1), Num(2), Num(0)>> }

\* the {token, solutions} bodies sent to redeemChallenge: well-formed ones,
\* and one for each way the input validation can fail
RedeemBodies ==
  {[token |-> Str(TokenSeq[1]), solutions |-> Arr(a)] : a \in SolutionArrays}
    \cup {[token |-> t, solutions |-> Arr(<<Num(1), Num(0)>>)] : t \in PoolTokens}
    \cup { [token |-> Undefined, solutions |-> Arr(<<Num(1), Num(2)>>)],
           [token |-> Str(<<>>), solutions |-> Arr(<<Num(1), Num(2)>>)],
           [token |-> Str(TokenSeq[1]), solutions |-> NoSolutions],
           [token |-> Str(TokenSeq[1]), solutions |-> ObjectSolutions],
           [token |-> Str(TokenSeq[1]), solutions |-> Arr(<<Num(1), StrEntry>>)] }

IssuedTokens ==
  {Str(id \o <<58>> \o SecretSeq[k]) : id \in IdPool, k \in 1..MaxTokens}

\* malformed tokens: undefined, a number, "", "a15e", ":5e", "a1:", "a1:5e:7f"
MalformedTokens ==
  { Undefined, NumberValue(<<53>>), Str(<<>>), Str(<<97, 49, 53, 101>>),
    Str(<<58, 53, 101>>), Str(<<97, 49, 58>>),
    Str(<<97, 49, 58, 53, 101, 58, 55, 102>>) }

\* the keys the token table comes to hold, sent as if they were tokens
StoredKeyTokens ==
  {Str(id \o <<58>> \o Sha256Digest(SecretSeq[k])) : id \in IdPool, k \in 1..MaxTokens}

\* the (token, conf) arguments sent to validateToken
ValidateArgs ==
  {[token |-> t, keep |-> k] : t \in IssuedTokens, k \in BOOLEAN}
    \cup {[token |-> t, keep |-> FALSE] : t \in MalformedTokens \cup StoredKeyTokens}

\* ------------------------------------------------------------------------
\* Puzzle derivation and hashing, tabulated over the inputs above
\* ------------------------------------------------------------------------

\* conf?.field ?? dflt
OrDefault(v, dflt) == IF v = Unset THEN dflt ELSE v

ConfChallenge(conf) ==
  [c |-> OrDefault(conf.challengeCount, DefaultChallengeCount),
   s |-> OrDefault(conf.challengeSize, DefaultChallengeSize),
   d |-> OrDefault(conf.challengeDifficulty, DefaultChallengeDifficulty)]

SolutionNumbers ==
  {a[i].n : <<a, i>> \in {<<b, j>> \in SolutionArrays \X (1..8) :
                            j <= Len(b) /\ b[j].t = "number"}}

MaxSolutions == Only({n \in 0..8 : /\ \E a \in SolutionArrays : Len(a) = n
                                   /\ \A a \in SolutionArrays : Len(a) <= n})

\* [prng(`${token}${i}`, s), prng(`${token}${i}d`, d)]
Puzzle(token, i, s, d) ==
  <<prng(token \o NumberString(i), s), prng(token \o NumberString(i) \o <<100>>, d)>>

PuzzleKeys ==
  {<<TokenSeq[k], i, ch.s, ch.d>> :
     k \in 1..MaxChallenges, i \in 1..MaxSolutions, ch \in {ConfChallenge(cf) : cf \in Confs}}

PuzzleTab == [k \in PuzzleKeys |-> Puzzle(k[1], k[2], k[3], k[4])]

\* token.split(":")
Split(str) ==
  LET seps == {i \in 1..Len(str) : str[i] = 58}
      n == Cardinality(seps)
      \* the k-th ':' of str; 0 before the first part, Len(str) + 1 after the last
      sepAt(k) == IF k = 0 THEN 0
                  ELSE IF k > n THEN Len(str) + 1
                  ELSE Only({i \in seps : Cardinality({j \in seps : j <= i}) = k})
  IN [k \in 1..(n + 1) |-> SubSeq(str, sepAt(k - 1) + 1, sepAt(k) - 1)]

TokenParts(token) == Split(token.v)

\* Malformed without the check of the secret part
MalformedSecretUnchecked(token) ==
  \/ Falsy(token)
  \/ token.t # "string"
  \/ Len(TokenParts(token)) # 2
  \/ TokenParts(token)[1] = <<>>

\* validateToken's two early returns (index.ts 225-232)
Malformed(token) ==
  \/ Falsy(token)
  \/ token.t # "string"
  \/ Len(TokenParts(token)) # 2
  \/ TokenParts(token)[1] = <<>>
  \/ TokenParts(token)[2] = <<>>

HashInputs ==
  {PuzzleTab[k][1] \o NumberString(x) : k \in PuzzleKeys, x \in SolutionNumbers}
    \cup {SecretSeq[k] : k \in 1..MaxTokens}
    \cup {TokenParts(t)[2] : t \in {u \in MalformedTokens \cup IssuedTokens \cup StoredKeyTokens :
                                   u.t = "string" /\ Len(TokenParts(u)) >= 2}}

HashTab == [m \in HashInputs |-> Sha256Digest(m)]

sha256Hex(input) == HashTab[input]

\* AllValid with some() in place of every()
AllValidSome(token, challenge, solutions) ==
  \E idx \in 0..(challenge.c - 1) :
    /\ idx < Len(solutions)
    /\ LET tuple == PuzzleTab[<<token, idx + 1, challenge.s, challenge.d>>]
       IN StartsWith(sha256Hex(tuple[1] \o NumberString(solutions[idx + 1].n)), tuple[2])

\* AllValid that lets a missing entry pass
AllValidMissingPasses(token, challenge, solutions) ==
  \A idx \in 0..(challenge.c - 1) :
    \/ ~(idx < Len(solutions))
    \/ LET tuple == PuzzleTab[<<token, idx + 1, challenge.s, challenge.d>>]
       IN StartsWith(sha256Hex(tuple[1] \o NumberString(solutions[idx + 1].n)), tuple[2])

\* isValidArr.every(Boolean) (index.ts 169-191)
AllValid(token, challenge, solutions) ==
  \A idx \in 0..(challenge.c - 1) :
    /\ idx < Len(solutions)
    /\ LET tuple == PuzzleTab[<<token, idx + 1, challenge.s, challenge.d>>]
       IN StartsWith(sha256Hex(tuple[1] \o NumberString(solutions[idx + 1].n)), tuple[2])

\* InvalidBody without the check of the entries
InvalidBodyEntriesUnchecked(token, solutions) ==
  \/ Falsy(token)
  \/ solutions.t = "undefined"
  \/ solutions.t # "array"

\* redeemChallenge's input validation (index.ts 153-160)
InvalidBody(token, solutions) ==
  \/ Falsy(token)
  \/ solutions.t = "undefined"
  \/ solutions.t # "array"
  \/ \E i \in 1..Len(solutions.v) : solutions.v[i].t # "number"

\* ------------------------------------------------------------------------
\* The Durable Object's SQL tables (DurableObject.ts 60-127)
\* ------------------------------------------------------------------------

\* JSON.stringify(challengeData.challenge): {"c":2,"s":4,"d":1}
JsonStringify(ch) ==
  <<123, 34, 99, 34, 58>> \o NumberString(ch.c) \o <<44, 34, 115, 34, 58>>
    \o NumberString(ch.s) \o <<44, 34, 100, 34, 58>> \o NumberString(ch.d) \o <<125>>

RECURSIVE ParseNat(_, _, _)
ParseNat(str, i, acc) ==
  IF i <= Len(str) /\ str[i] \in 48..57
  THEN ParseNat(str, i + 1, (acc * 10) + (str[i] - 48))
  ELSE acc

\* the number that follows "key": in the text
MemberValue(str, key) ==
  LET p == Only({q \in 1..Len(str) - 3 :
                   /\ str[q] = 34 /\ str[q + 1] = key /\ str[q + 2] = 34 /\ str[q + 3] = 58})
  IN ParseNat(str, p + 4, 0)

\* JSON.parse(row.data)
JsonParse(str) ==
  [c |-> MemberValue(str, 99), s |-> MemberValue(str, 115), d |-> MemberValue(str, 100)]

NullData == [present |-> FALSE, challenge |-> [c |-> 0, s |-> 0, d |-> 0], expires |-> 0]

\* storeChallenge that leaves no other row in the table
storeChallengeAlone(rows, token, challengeData) ==
  [k \in {token} |->
     [data |-> JsonStringify(challengeData.challenge), expires |-> challengeData.expires]]

\* INSERT OR REPLACE INTO challenges
storeChallenge(rows, token, challengeData) ==
  [k \in DOMAIN rows \cup {token} |->
     IF k = token
     THEN [data |-> JsonStringify(challengeData.challenge), expires |-> challengeData.expires]
     ELSE rows[k]]

\* SELECT ... WHERE token = ? AND expires > ?, then cursor.one(), which
\* throws unless the result has exactly one row
readChallenge(rows, token, t) ==
  LET sel == {k \in DOMAIN rows : k = token /\ rows[k].expires > t}
  IN IF Cardinality(sel) # 1
     THEN [threw |-> TRUE, value |-> NullData]
     ELSE [threw |-> FALSE,
           value |-> [present |-> TRUE, challenge |-> JsonParse(rows[token].data),
                      expires |-> rows[token].expires]]

\* deleteChallenge that removes nothing
deleteChallengeNothing(rows, token) == rows

\* DELETE FROM challenges WHERE token = ?
deleteChallenge(rows, token) == [k \in DOMAIN rows \ {token} |-> rows[k]]

\* listExpiredChallenges with < in place of <=
listExpiredChallengesStrict(rows, t) == {k \in DOMAIN rows : rows[k].expires < t}

\* SELECT token FROM challenges WHERE expires <= ?
listExpiredChallenges(rows, t) == {k \in DOMAIN rows : rows[k].expires <= t}

\* storeToken that writes nothing
storeTokenNothing(rows, key, expires) == rows

\* INSERT OR REPLACE INTO tokens
storeToken(rows, key, expires) ==
  [k \in DOMAIN rows \cup {key} |-> IF k = key THEN expires ELSE rows[k]]

\* SELECT expires FROM tokens WHERE key = ? AND expires > ?, then cursor.one()
readToken(rows, key, t) ==
  LET sel == {k \in DOMAIN rows : k = key /\ rows[k] > t}
  IN IF Cardinality(sel) # 1
     THEN [threw |-> TRUE, value |-> 0]
     ELSE [threw |-> FALSE, value |-> rows[key]]

\* SELECT key FROM tokens WHERE expires <= ?
listExpiredTokens(rows, t) == {k \in DOMAIN rows : rows[k] <= t}

\* deleteToken that removes nothing
deleteTokenNothing(rows, key) == rows

\* DELETE FROM tokens WHERE key = ?
deleteToken(rows, key) == [k \in DOMAIN rows \ {key} |-> rows[k]]

\* ------------------------------------------------------------------------
\* State
\* ------------------------------------------------------------------------

VARIABLES
  challenges,  \* table challenges: token -> [data, expires]
  tokens,      \* table tokens: key -> expires
  now,         \* Date.now()
  ticks,       \* how many times the clock has moved
  calls,       \* the request in each slot: its arguments, position, locals, result
  drawn,       \* how many tokens and secrets randomHex has produced
  hist,        \* what completed calls have achieved so far
  cleaner,     \* the cleanup() call: its position and the keys it has listed
  hooks,       \* which stores of the storage backend provide listExpired
  alarm,       \* the Durable Object's alarm time, or NoAlarm
  sample       \* a (seed, length) pair and what prng returned for it

vars == <<challenges, tokens, now, ticks, calls, drawn, hist, cleaner, hooks, alarm, sample>>

\* what the request handlers never touch
background == <<cleaner, hooks, alarm, sample>>

NoChallenge == [c |-> 0, s |-> 0, d |-> 0]

NoResult ==
  [kind |-> "none", success |-> FALSE, message |-> "", token |-> <<>>, expires |-> 0,
   challenge |-> NoChallenge]

Returned(success, message, token, expires) ==
  [kind |-> "returned", success |-> success, message |-> message, token |-> token,
   expires |-> expires, challenge |-> NoChallenge]

\* the call's promise rejects with the exception a storage hook threw
Threw ==
  [kind |-> "threw", success |-> FALSE, message |-> "", token |-> <<>>, expires |-> 0,
   challenge |-> NoChallenge]

Idle ==
  [op |-> "none", pc |-> "idle", token |-> Undefined, solutions |-> NoSolutions,
   keep |-> FALSE, conf |-> NoConf, data |-> NullData, vertoken |-> <<>>, expires |-> 0,
   tokenExpires |-> 0, after |-> FALSE, listed |-> FALSE, log |-> <<>>, result |-> NoResult]

\* setAlarm(Date.now() + 1000 * 5 * 60)
AlarmDelayMs == 1000 * 5 * 60

\* getAlarm() returns null
NoAlarm == 0 - 1

\* no cleanup() call is running
CleanerIdle == [pc |-> "idle", list |-> {}, at |-> 0, warned |-> {}, removed |-> {}]

\* CapDO hands Cap a listExpired hook for both stores
BothHooks == [challenges |-> TRUE, tokens |-> TRUE]

\* prng has not been called
NoSample == [pc |-> "none", seed |-> <<>>, length |-> 0, first |-> <<>>, second |-> <<>>]

\* the constructor has run on an object without stored rows
Constructed ==
  /\ cleaner = CleanerIdle
  /\ hooks = BothHooks
  /\ alarm = StartTime + AlarmDelayMs
  /\ challenges = <<>>
  /\ tokens = <<>>
  /\ now = StartTime
  /\ ticks = 0
  /\ calls = [c \in Calls |-> Idle]
  /\ drawn = [tokens |-> 0, secrets |-> 0]
  /\ hist = [redeemed |-> [t \in PoolTokens |-> 0], consumed |-> [t \in IssuedTokens |-> 0],
             issued |-> <<>>]

Init == Constructed /\ sample = NoSample

\* a finished call: its arguments, locals and storage log stay with the result
Finish(call, result) == [call EXCEPT !.pc = "done", !.result = result]

\* ------------------------------------------------------------------------
\* createChallenge (index.ts 120-145)
\* ------------------------------------------------------------------------

\* a finished call's result is taken by its caller before anything else happens
Quiet == cleaner.pc # "done" /\ \A c \in Calls : calls[c].pc # "done"

\* a new call takes the first slot in which none is in flight
FreeSlot(c) ==
  /\ Quiet
  /\ calls[c].pc = "idle"
  /\ \A d \in Calls : d < c => calls[d].pc # "idle"

\* the whole call: the store hook runs before the first await takes effect
CreateChallenge(c, conf) ==
  /\ FreeSlot(c)
  /\ LET challenge == ConfChallenge(conf)
         token == TokenSeq[drawn.tokens + 1]
         expires == now + OrDefault(conf.expiresMs, DefaultExpiresMs)
         call == [Idle EXCEPT !.op = "create", !.conf = conf]
     IN IF conf.store = "false"
        THEN /\ calls' = [calls EXCEPT ![c] =
                            Finish(call, [Returned(TRUE, "", <<>>, expires)
                                            EXCEPT !.challenge = challenge])]
             /\ UNCHANGED <<challenges, drawn>>
        ELSE /\ drawn.tokens < MaxChallenges
             /\ drawn.tokens < Len(TokenSeq)
             /\ challenges' = storeChallenge(challenges, token,
                                             [expires |-> expires, challenge |-> challenge])
             /\ calls' = [calls EXCEPT ![c] =
                            Finish([call EXCEPT !.log = <<"store">>],
                                   [Returned(TRUE, "", token, expires)
                                      EXCEPT !.challenge = challenge])]
             /\ drawn' = [drawn EXCEPT !.tokens = @ + 1]
  /\ UNCHANGED <<tokens, now, ticks, hist>>
  /\ UNCHANGED background

\* ------------------------------------------------------------------------
\* redeemChallenge (index.ts 147-206), one action per stretch between awaits
\* ------------------------------------------------------------------------

\* lines 153-162: input validation, then the read issued by _getChallenge
RedeemStart(c, token, solutions) ==
  /\ FreeSlot(c)
  /\ LET call == [Idle EXCEPT !.op = "redeem", !.token = token, !.solutions = solutions,
                              !.after = (token \in PoolTokens /\ hist.redeemed[token] > 0)]
     IN IF InvalidBody(token, solutions)
        THEN calls' = [calls EXCEPT ![c] =
                         Finish(call, Returned(FALSE, "Invalid body", <<>>, 0))]
        ELSE LET r == readChallenge(challenges, token.v, now)
                 read == [call EXCEPT !.log = <<"read">>,
                                      !.listed = token.v \in listExpiredChallenges(challenges, now)]
             IN IF r.threw
                THEN calls' = [calls EXCEPT ![c] = Finish(read, Threw)]
                ELSE calls' = [calls EXCEPT ![c] =
                                 [read EXCEPT !.pc = "delete", !.data = r.value]]
  /\ UNCHANGED <<challenges, tokens, now, ticks, drawn, hist>>
  /\ UNCHANGED background

\* line 163: the delete issued by _deleteChallenge
RedeemDelete(c) ==
  /\ Quiet
  /\ calls[c].pc = "delete"
  /\ challenges' = deleteChallenge(challenges, calls[c].token.v)
  /\ calls' = [calls EXCEPT ![c].pc = "check", ![c].log = Append(@, "delete")]
  /\ UNCHANGED <<tokens, now, ticks, drawn, hist>>
  /\ UNCHANGED background

\* lines 165-182: the expiry check, then the puzzles are derived and hashed
RedeemCheck(c) ==
  /\ Quiet
  /\ calls[c].pc = "check"
  /\ IF ~calls[c].data.present \/ calls[c].data.expires < now
     THEN calls' = [calls EXCEPT ![c] =
                      Finish(@, Returned(FALSE, "Challenge invalid or expired", <<>>, 0))]
     ELSE calls' = [calls EXCEPT ![c].pc = "verify"]
  /\ UNCHANGED <<challenges, tokens, now, ticks, drawn, hist>>
  /\ UNCHANGED background

\* lines 191-197: the verdict, then vertoken and expires are chosen
RedeemVerify(c) ==
  /\ Quiet
  /\ calls[c].pc = "verify"
  /\ IF ~AllValid(calls[c].token.v, calls[c].data.challenge, calls[c].solutions.v)
     THEN /\ calls' = [calls EXCEPT ![c] =
                         Finish(@, Returned(FALSE, "Invalid solution", <<>>, 0))]
          /\ UNCHANGED drawn
     ELSE /\ drawn.secrets < MaxTokens
          /\ drawn.secrets < Len(SecretSeq)
          /\ calls' = [calls EXCEPT ![c].pc = "issue",
                                    ![c].vertoken = SecretSeq[drawn.secrets + 1],
                                    ![c].expires = now + TokenTtlMs]
          /\ drawn' = [drawn EXCEPT !.secrets = @ + 1]
  /\ UNCHANGED <<challenges, tokens, now, ticks, hist>>
  /\ UNCHANGED background

\* IssuedKey that keeps the secret as it is
IssuedKeyRaw(id, vertoken) == id \o <<58>> \o vertoken

\* lines 197-199: hash = sha256Hex(vertoken), tokenKey = `${id}:${hash}`
IssuedKey(id, vertoken) == id \o <<58>> \o sha256Hex(vertoken)

\* lines 198-205: the key is stored and the token returned
RedeemIssue(c) ==
  /\ Quiet
  /\ calls[c].pc = "issue"
  /\ \E id \in IdPool :
       LET tokenKey == IssuedKey(id, calls[c].vertoken)
       IN /\ tokens' = storeToken(tokens, tokenKey, calls[c].expires)
          /\ calls' = [calls EXCEPT ![c] =
                         Finish([@ EXCEPT !.log = Append(@, "store")],
                                Returned(TRUE, "", id \o <<58>> \o calls[c].vertoken,
                                         calls[c].expires))]
          /\ hist' = [hist EXCEPT !.redeemed[calls[c].token] = @ + 1,
                                   !.issued = [k \in DOMAIN @ \cup {tokenKey} |->
                                                 IF k = tokenKey THEN calls[c].token ELSE @[k]]]
  /\ UNCHANGED <<challenges, now, ticks, drawn>>
  /\ UNCHANGED background

\* ------------------------------------------------------------------------
\* validateToken (index.ts 221-252)
\* ------------------------------------------------------------------------

TokenKey(token) == TokenParts(token)[1] \o <<58>> \o sha256Hex(TokenParts(token)[2])

\* lines 225-235: the two early returns, then the secret is hashed
ValidateStart(c, token, keep) ==
  /\ FreeSlot(c)
  /\ LET call == [Idle EXCEPT !.op = "validate", !.token = token, !.keep = keep,
                              !.after = (token \in IssuedTokens /\ hist.consumed[token] > 0)]
     IN IF Malformed(token)
        THEN calls' = [calls EXCEPT ![c] = Finish(call, Returned(FALSE, "", <<>>, 0))]
        ELSE calls' = [calls EXCEPT ![c] = [call EXCEPT !.pc = "get"]]
  /\ UNCHANGED <<challenges, tokens, now, ticks, drawn, hist>>
  /\ UNCHANGED background

\* line 238: the lookup issued by _getToken
ValidateGet(c) ==
  /\ Quiet
  /\ calls[c].pc = "get"
  /\ LET r == readToken(tokens, TokenKey(calls[c].token), now)
         got == [calls[c] EXCEPT !.log = <<"get">>,
                                 !.listed = TokenKey(calls[c].token) \in listExpiredTokens(tokens, now)]
     IN IF r.threw
        THEN calls' = [calls EXCEPT ![c] = Finish(got, Threw)]
        ELSE calls' = [calls EXCEPT ![c] =
                         [got EXCEPT !.pc = "consume", !.tokenExpires = r.value]]
  /\ UNCHANGED <<challenges, tokens, now, ticks, drawn, hist>>
  /\ UNCHANGED background

\* lines 240-251: the expiry check and the single-use delete
ValidateCheck(c) ==
  /\ Quiet
  /\ calls[c].pc = "consume"
  /\ IF calls[c].tokenExpires = 0
     THEN /\ calls' = [calls EXCEPT ![c] = Finish(@, Returned(FALSE, "", <<>>, 0))]
          /\ UNCHANGED <<tokens, hist>>
     ELSE IF calls[c].tokenExpires > now
     THEN IF ~calls[c].keep
          THEN /\ tokens' = deleteToken(tokens, TokenKey(calls[c].token))
               /\ calls' = [calls EXCEPT ![c] =
                              Finish([@ EXCEPT !.log = Append(@, "delete")],
                                     Returned(TRUE, "", <<>>, 0))]
               /\ hist' = [hist EXCEPT !.consumed[calls[c].token] = @ + 1]
          ELSE /\ calls' = [calls EXCEPT ![c] = Finish(@, Returned(TRUE, "", <<>>, 0))]
               /\ UNCHANGED <<tokens, hist>>
     ELSE /\ calls' = [calls EXCEPT ![c] = Finish(@, Returned(FALSE, "", <<>>, 0))]
          /\ UNCHANGED <<tokens, hist>>
  /\ UNCHANGED <<challenges, now, ticks, drawn>>
  /\ UNCHANGED background

\* ------------------------------------------------------------------------
\* cleanup (index.ts 254-286) and the alarm that calls it (DurableObject.ts 27-58)
\* ------------------------------------------------------------------------

\* lines 270-281: the token half, up to its first await
ListTokens(call) ==
  IF hooks.tokens
  THEN [call EXCEPT !.pc = "deleteTokens", !.list = listExpiredTokens(tokens, now)]
  ELSE [call EXCEPT !.pc = "done", !.list = {}, !.warned = @ \cup {"tokens"}]

\* ListChallenges that gives up when the challenge store has no listExpired
ListChallengesAbort(call) ==
  IF hooks.challenges
  THEN [call EXCEPT !.pc = "deleteChallenges", !.list = listExpiredChallenges(challenges, now)]
  ELSE [call EXCEPT !.pc = "done", !.list = {}, !.warned = @ \cup {"challenges"}]

\* lines 255-268: the challenge half, up to its first await
ListChallenges(call) ==
  IF hooks.challenges
  THEN [call EXCEPT !.pc = "deleteChallenges", !.list = listExpiredChallenges(challenges, now)]
  ELSE ListTokens([call EXCEPT !.warned = @ \cup {"challenges"}])

\* DeleteAll that empties the table
DeleteAllRows(rows, list) == [k \in {} |-> rows[k]]

\* Promise.all over the listed keys: each delete hook runs as its callback is called
DeleteAll(rows, list) == [k \in DOMAIN rows \ list |-> rows[k]]

\* alarm(): the alarm is spent and cleanup() begins
Alarm ==
  /\ Quiet
  /\ cleaner.pc = "idle"
  /\ alarm # NoAlarm
  /\ now >= alarm
  /\ alarm' = NoAlarm
  /\ cleaner' = ListChallenges([CleanerIdle EXCEPT !.at = now])
  /\ UNCHANGED <<challenges, tokens, now, ticks, calls, drawn, hist, hooks, sample>>

\* lines 259-263: the listed challenges are deleted
CleanupDeleteChallenges ==
  /\ Quiet
  /\ cleaner.pc = "deleteChallenges"
  /\ challenges' = DeleteAll(challenges, cleaner.list)
  /\ cleaner' = [cleaner EXCEPT !.pc = "tokens", !.list = {},
                                !.removed = @ \cup (cleaner.list \cap DOMAIN challenges)]
  /\ UNCHANGED <<tokens, now, ticks, calls, drawn, hist, hooks, alarm, sample>>

\* lines 270-271: Promise.all has settled and the token half begins
CleanupListTokens ==
  /\ Quiet
  /\ cleaner.pc = "tokens"
  /\ cleaner' = ListTokens(cleaner)
  /\ UNCHANGED <<challenges, tokens, now, ticks, calls, drawn, hist, hooks, alarm, sample>>

\* lines 272-276: the listed tokens are deleted and cleanup() returns
CleanupDeleteTokens ==
  /\ Quiet
  /\ cleaner.pc = "deleteTokens"
  /\ tokens' = DeleteAll(tokens, cleaner.list)
  /\ cleaner' = [cleaner EXCEPT !.pc = "done", !.list = {},
                                !.removed = @ \cup (cleaner.list \cap DOMAIN tokens)]
  /\ UNCHANGED <<challenges, now, ticks, calls, drawn, hist, hooks, alarm, sample>>

\* alarm() returns
CleanupReturn ==
  /\ cleaner.pc = "done"
  /\ cleaner' = CleanerIdle
  /\ UNCHANGED <<challenges, tokens, now, ticks, calls, drawn, hist, hooks, alarm, sample>>

\* the object is evicted while nothing runs and built again: the constructor
\* sets an alarm when none is pending
Construct ==
  /\ Quiet
  /\ cleaner.pc = "idle"
  /\ \A c \in Calls : calls[c].pc = "idle"
  /\ alarm' = IF alarm = NoAlarm THEN now + AlarmDelayMs ELSE alarm
  /\ UNCHANGED <<challenges, tokens, now, ticks, calls, drawn, hist, cleaner, hooks, sample>>

\* the clock reaches the alarm time
AlarmDue ==
  /\ Quiet
  /\ ticks < MaxTicks
  /\ alarm # NoAlarm
  /\ alarm > now
  /\ now' = alarm
  /\ ticks' = ticks + 1
  /\ UNCHANGED <<challenges, tokens, calls, drawn, hist, cleaner, hooks, alarm, sample>>

\* ------------------------------------------------------------------------
\* The caller takes the result; time passes
\* ------------------------------------------------------------------------

Return(c) ==
  /\ calls[c].pc = "done"
  /\ calls' = [calls EXCEPT ![c] = Idle]
  /\ UNCHANGED <<challenges, tokens, now, ticks, drawn, hist>>
  /\ UNCHANGED background

\* expiry times held in the tables or by calls in flight
Expiries ==
  {challenges[k].expires : k \in DOMAIN challenges}
    \cup {tokens[k] : k \in DOMAIN tokens}
    \cup {calls[c].data.expires : c \in {d \in Calls : calls[d].data.present}}
    \cup {calls[c].tokenExpires : c \in {d \in Calls : calls[d].tokenExpires # 0}}

\* the clock moves on to one of them, or just past it
Tick ==
  /\ Quiet
  /\ ticks < MaxTicks
  /\ ticks' = ticks + 1
  /\ \E e \in Expiries : \E t \in {e, e + 1} : t > now /\ now' = t
  /\ UNCHANGED <<challenges, tokens, calls, drawn, hist>>
  /\ UNCHANGED background

Next ==
  \/ \E c \in Calls, conf \in Confs : CreateChallenge(c, conf)
  \/ \E c \in Calls, body \in RedeemBodies : RedeemStart(c, body.token, body.solutions)
  \/ \E c \in Calls : RedeemDelete(c)
  \/ \E c \in Calls : RedeemCheck(c)
  \/ \E c \in Calls : RedeemVerify(c)
  \/ \E c \in Calls : RedeemIssue(c)
  \/ \E c \in Calls, arg \in ValidateArgs : ValidateStart(c, arg.token, arg.keep)
  \/ \E c \in Calls : ValidateGet(c)
  \/ \E c \in Calls : ValidateCheck(c)
  \/ \E c \in Calls : Return(c)
  \/ Tick

Spec == Init /\ [][Next]_vars

\* ------------------------------------------------------------------------
\* Cleanup beside the request handlers, over any contents of the two tables
\* ------------------------------------------------------------------------

MaxForeground == 1

\* rows of earlier requests: one at its expiry time, one with its full life ahead
InitExpiries == {StartTime, StartTime + DefaultExpiresMs}

InitChallengeRow(e) ==
  [data |-> JsonStringify([c |-> 2, s |-> 4, d |-> 1]), expires |-> e]

\* the token of a challenge made long ago; randomHex does not return it again
OldToken == TokenSeq[Len(TokenSeq)]

InitChallengeTables ==
  UNION {[S -> {InitChallengeRow(e) : e \in InitExpiries}] :
           S \in SUBSET {TokenSeq[1], OldToken}}

InitTokenTables ==
  UNION {[S -> InitExpiries] :
           S \in SUBSET {id \o <<58>> \o sha256Hex(SecretSeq[1]) : id \in IdPool}}

\* a backend may leave out listExpired for a store
HookConfigs ==
  {BothHooks, [challenges |-> TRUE, tokens |-> FALSE], [challenges |-> FALSE, tokens |-> TRUE]}

\* how many values of the sequence are in use as keys of the table
Used(seq, keys) ==
  Only({n \in 0..Len(seq) : /\ n = 0 \/ \E k \in keys : k = seq[n]
                            /\ \A m \in (n + 1)..Len(seq) : \A k \in keys : k # seq[m]})

InitCleanup ==
  /\ challenges \in InitChallengeTables
  /\ tokens \in InitTokenTables
  /\ hooks \in HookConfigs
  /\ now = StartTime
  /\ ticks = 0
  /\ calls = [c \in Calls |-> Idle]
  /\ cleaner = CleanerIdle
  /\ alarm = StartTime
  /\ sample = NoSample
  /\ drawn = [tokens |-> Used(TokenSeq, DOMAIN challenges \ {OldToken}),
              secrets |-> Used([k \in 1..MaxTokens |->
                                  Only(IdPool) \o <<58>> \o sha256Hex(SecretSeq[k])],
                               DOMAIN tokens)]
  /\ hist = [redeemed |-> [t \in PoolTokens |-> 0], consumed |-> [t \in IssuedTokens |-> 0],
             issued |-> <<>>]

NextCleanup ==
  \/ Alarm
  \/ CleanupDeleteChallenges
  \/ CleanupListTokens
  \/ CleanupDeleteTokens
  \/ CleanupReturn
  \/ \E c \in 1..MaxForeground, conf \in Confs : CreateChallenge(c, conf)
  \/ \E c \in 1..MaxForeground, body \in RedeemBodies : RedeemStart(c, body.token, body.solutions)
  \/ \E c \in 1..MaxForeground : RedeemDelete(c)
  \/ \E c \in 1..MaxForeground : RedeemCheck(c)
  \/ \E c \in 1..MaxForeground : RedeemVerify(c)
  \/ \E c \in 1..MaxForeground : RedeemIssue(c)
  \/ \E c \in 1..MaxForeground, arg \in ValidateArgs : ValidateStart(c, arg.token, arg.keep)
  \/ \E c \in 1..MaxForeground : ValidateGet(c)
  \/ \E c \in 1..MaxForeground : ValidateCheck(c)
  \/ \E c \in 1..MaxForeground : Return(c)
  \/ Tick

SpecCleanup == InitCleanup /\ [][NextCleanup]_vars

\* ------------------------------------------------------------------------
\* One Durable Object from its construction on: the alarm and what it starts
\* ------------------------------------------------------------------------

NextAlarm ==
  \/ Alarm
  \/ CleanupDeleteChallenges
  \/ CleanupListTokens
  \/ CleanupDeleteTokens
  \/ CleanupReturn
  \/ Construct
  \/ AlarmDue
  \/ Tick
  \/ \E c \in 1..MaxForeground, conf \in Confs : CreateChallenge(c, conf)
  \/ \E c \in 1..MaxForeground, body \in RedeemBodies : RedeemStart(c, body.token, body.solutions)
  \/ \E c \in 1..MaxForeground : RedeemDelete(c)
  \/ \E c \in 1..MaxForeground : RedeemCheck(c)
  \/ \E c \in 1..MaxForeground : RedeemVerify(c)
  \/ \E c \in 1..MaxForeground : RedeemIssue(c)
  \/ \E c \in 1..MaxForeground : Return(c)

\* the runtime delivers a due alarm, awaited steps resume, results are taken
\* and the clock moves; requests and evictions come when they come
AlarmFairness ==
  /\ WF_vars(Alarm)
  /\ WF_vars(CleanupDeleteChallenges)
  /\ WF_vars(CleanupListTokens)
  /\ WF_vars(CleanupDeleteTokens)
  /\ WF_vars(CleanupReturn)
  /\ WF_vars(AlarmDue)
  /\ WF_vars(Tick)
  /\ \A c \in 1..MaxForeground :
       WF_vars(RedeemDelete(c) \/ RedeemCheck(c) \/ RedeemVerify(c) \/ RedeemIssue(c) \/ Return(c))

SpecAlarm == Init /\ [][NextAlarm]_vars /\ AlarmFairness

\* ------------------------------------------------------------------------
\* prng on its own (index.ts 55-82)
\* ------------------------------------------------------------------------

MaxLength == 17

\* "", "a", "01de1", "01de1d", "01f22", "zz"
Seeds ==
  { <<>>, <<97>>, <<48, 49, 100, 101, 49>>, <<48, 49, 100, 101, 49, 100>>,
    <<48, 49, 102, 50, 50>>, <<122, 122>> }

InitPrng ==
  /\ Constructed
  /\ sample \in {[NoSample EXCEPT !.pc = "ready", !.seed = seed, !.length = length] :
                   seed \in Seeds, length \in 0..MaxLength}

\* prng(seed, length) is called
Derive ==
  /\ sample.pc = "ready"
  /\ sample' = [sample EXCEPT !.pc = "once", !.first = prng(sample.seed, sample.length)]
  /\ UNCHANGED <<challenges, tokens, now, ticks, calls, drawn, hist, cleaner, hooks, alarm>>

\* prng(seed, length) is called again
DeriveAgain ==
  /\ sample.pc = "once"
  /\ sample' = [sample EXCEPT !.pc = "twice", !.second = prng(sample.seed, sample.length)]
  /\ UNCHANGED <<challenges, tokens, now, ticks, calls, drawn, hist, cleaner, hooks, alarm>>

NextPrng == Derive \/ DeriveAgain

SpecPrng == InitPrng /\ [][NextPrng]_vars

\* ------------------------------------------------------------------------
\* Properties
\* ------------------------------------------------------------------------

\* the call in slot c has just come to its end
Done(c, op) == calls[c].pc = "done" /\ calls[c].op = op

\* this step begins the call in slot c
Starts(c, op) == calls[c].pc = "idle" /\ calls'[c].pc # "idle" /\ calls'[c].op = op

\* this step brings the call in slot c to its end
Completes(c, op) == calls[c].pc # "done" /\ calls'[c].pc = "done" /\ calls'[c].op = op

Failure(message) == Returned(FALSE, message, <<>>, 0)

\* solutions[i] exists and sha256(salt_i + solutions[i]) begins with target_i
PuzzleSolved(call, i) ==
  /\ i <= Len(call.solutions.v)
  /\ LET salt == PuzzleTab[<<call.token.v, i, call.data.challenge.s, call.data.challenge.d>>][1]
         target == PuzzleTab[<<call.token.v, i, call.data.challenge.s, call.data.challenge.d>>][2]
         digest == HashTab[salt \o NumberString(call.solutions.v[i].n)]
     IN SubSeq(digest, 1, Len(target)) = target

\* the challenge was found, and is unexpired when the call ends
FoundUnexpired(call) == call.data.present /\ call.data.expires >= now

\* C1: a stored challenge is redeemed with correct solutions exactly once: the
\* first such call before expiry returns success, and every later call with
\* the same token, whatever its solutions, returns
\* {success: false, message: 'Challenge invalid or expired'}.
C1_RedeemedExactlyOnce ==
  \A c \in Calls :
    Done(c, "redeem") /\ ~InvalidBody(calls[c].token, calls[c].solutions) =>
      /\ calls[c].after => calls[c].result = Failure("Challenge invalid or expired")
      /\ (/\ ~calls[c].after
          /\ FoundUnexpired(calls[c])
          /\ \A i \in 1..calls[c].data.challenge.c : PuzzleSolved(calls[c], i))
           => calls[c].result.kind = "returned" /\ calls[c].result.success

\* C2: of two redeemChallenge calls in flight for one stored challenge, at
\* most one returns success and at most one verification token is issued,
\* however their steps interleave.
C2_AtMostOneRedemption ==
  \A t \in PoolTokens : hist.redeemed[t] <= 1

\* C3: of two validateToken calls in flight for one stored token, neither with
\* keepToken, at most one returns {success: true}.
C3_AtMostOneValidation ==
  \A t \in IssuedTokens : hist.consumed[t] <= 1

\* C4: a validation without keepToken succeeds while the record is stored and
\* unexpired, removes the record, and no later validation of that token
\* succeeds; a validation with keepToken succeeds under the same condition and
\* leaves the token store as it was; a validation ends at the lookup only when
\* the record is missing or expired.
C4_TokenSingleUse ==
  [][\A c \in Calls :
       Completes(c, "validate") /\ ~Malformed(calls'[c].token) =>
         LET key == TokenKey(calls'[c].token)
             result == calls'[c].result
         IN /\ calls'[c].after => ~result.success
            /\ calls'[c].keep => tokens' = tokens
            /\ result.success /\ ~calls'[c].keep => key \notin DOMAIN tokens'
            /\ calls[c].pc = "get" => key \notin DOMAIN tokens \/ tokens[key] <= now
            /\ calls[c].pc = "consume" =>
                 /\ result.kind = "returned"
                 /\ result.success <=> calls[c].tokenExpires > now]_vars

\* a consumed token is presented again and the validation does not succeed
C4_Witness ==
  \E c \in Calls :
    /\ Done(c, "validate")
    /\ calls[c].after
    /\ calls[c].log # <<>>
    /\ ~calls[c].result.success

\* C5: when a redeemChallenge call that passed input validation has ended,
\* whatever its outcome, no challenge is stored under its token.
C5_ChallengeConsumed ==
  \A c \in Calls :
    Done(c, "redeem") /\ ~InvalidBody(calls[c].token, calls[c].solutions) =>
      calls[c].token.v \notin DOMAIN challenges

\* C6: a redemption of a challenge that exists and is unexpired succeeds if
\* and only if each of the count puzzles is solved by the entry at its index;
\* otherwise it returns {success: false, message: 'Invalid solution'}, and no
\* token is stored.
C6_AllOrNothing ==
  [][\A c \in Calls :
       (/\ Completes(c, "redeem")
        /\ calls'[c].data.present
        /\ calls'[c].data.expires >= now') =>
         LET solved == \A i \in 1..calls'[c].data.challenge.c : PuzzleSolved(calls'[c], i)
         IN /\ calls'[c].result.kind = "returned"
            /\ calls'[c].result.success <=> solved
            /\ ~solved => /\ calls'[c].result = Failure("Invalid solution")
                          /\ tokens' = tokens
                          /\ \A k \in 1..Len(calls'[c].log) : calls'[c].log[k] # "store"]_vars

\* every puzzle but one is solved, and the redemption is refused
C6_Witness ==
  \E c \in Calls :
    /\ Done(c, "redeem")
    /\ FoundUnexpired(calls[c])
    /\ calls[c].result = Failure("Invalid solution")
    /\ \E i \in 1..calls[c].data.challenge.c :
         /\ ~PuzzleSolved(calls[c], i)
         /\ \A j \in 1..calls[c].data.challenge.c : j # i => PuzzleSolved(calls[c], j)

\* C7: a redemption succeeds only when the solutions sequence has exactly
\* count entries.
C7_ExactlyCountEntries ==
  \A c \in Calls :
    Done(c, "redeem") /\ calls[c].result.success =>
      Len(calls[c].solutions.v) = calls[c].data.challenge.c

\* C7, as the code has it: a redemption succeeds only when the solutions
\* sequence has at least count entries; a sequence with fewer never succeeds.
C7_AtLeastCountEntries ==
  \A c \in Calls :
    Done(c, "redeem") /\ calls[c].result.success =>
      Len(calls[c].solutions.v) >= calls[c].data.challenge.c

\* a redemption succeeds with more entries than puzzles
C7_Witness ==
  \E c \in Calls :
    /\ Done(c, "redeem")
    /\ calls[c].result.success
    /\ Len(calls[c].solutions.v) > calls[c].data.challenge.c

\* C8: no call ends with an exception out of a storage hook: a lookup that
\* finds no unexpired row yields a well-formed failure result.
C8_NoUncaughtFault ==
  \A c \in Calls : calls[c].pc = "done" => calls[c].result.kind = "returned"

\* not a string, empty, without a ':' separator, or with an empty id or secret
MalformedToken(token) ==
  \/ token.t # "string"
  \/ token.v = <<>>
  \/ \A i \in 1..Len(token.v) : token.v[i] # 58
  \/ token.v[1] = 58
  \/ token.v[Len(token.v)] = 58

\* C9: validateToken of a malformed token returns {success: false} at once,
\* issues no get and no delete, and leaves both stores as they were.
C9_MalformedTokenRejected ==
  [][\A c \in Calls :
       Starts(c, "validate") /\ MalformedToken(calls'[c].token) =>
         /\ calls'[c].pc = "done"
         /\ calls'[c].result = Failure("")
         /\ calls'[c].log = <<>>
         /\ challenges' = challenges
         /\ tokens' = tokens]_vars

\* a malformed token has been refused while a token is stored
C9_Witness ==
  \E c \in Calls :
    /\ Done(c, "validate")
    /\ MalformedToken(calls[c].token)
    /\ calls[c].result = Failure("")
    /\ DOMAIN tokens # {}

\* token absent or empty, or solutions absent, not an array, or holding an
\* entry that is not a number
MalformedBody(token, solutions) ==
  \/ token.t = "undefined"
  \/ token.t = "string" /\ token.v = <<>>
  \/ solutions.t # "array"
  \/ \E i \in 1..Len(solutions.v) : solutions.v[i].t # "number"

\* C10: redeemChallenge with an invalid body returns
\* {success: false, message: 'Invalid body'}, reads and deletes nothing, and
\* leaves both stores as they were, so the challenge named stays redeemable.
C10_InvalidBodyRejected ==
  [][\A c \in Calls :
       Starts(c, "redeem") /\ MalformedBody(calls'[c].token, calls'[c].solutions) =>
         /\ calls'[c].pc = "done"
         /\ calls'[c].result = Failure("Invalid body")
         /\ calls'[c].log = <<>>
         /\ challenges' = challenges
         /\ tokens' = tokens]_vars

\* an invalid body naming a stored challenge has been refused
C10_Witness ==
  \E c \in Calls :
    /\ Done(c, "redeem")
    /\ MalformedBody(calls[c].token, calls[c].solutions)
    /\ calls[c].result = Failure("Invalid body")
    /\ calls[c].token.t = "string"
    /\ calls[c].token.v \in DOMAIN challenges

\* this step is cleanup() leaving the position pc
CleanupLeaves(pc) == cleaner.pc = pc /\ cleaner'.pc # pc

\* this step ends a cleanup() during which the clock has not moved
CleanupEndsAtOnce == cleaner.pc # "done" /\ cleaner'.pc = "done" /\ cleaner'.at = now'

\* C11: when cleanup() has completed, every challenge and every token whose
\* expiry is at or before the time cleanup ran at is gone from its store, and
\* each delete pass leaves every unexpired record in place, unchanged.
C11_CleanupDeletesExpiredOnly ==
  [][/\ CleanupLeaves("deleteChallenges") =>
          /\ tokens' = tokens
          /\ \A k \in DOMAIN challenges :
               /\ challenges[k].expires <= cleaner.at => k \notin DOMAIN challenges'
               /\ challenges[k].expires > now =>
                    k \in DOMAIN challenges' /\ challenges'[k] = challenges[k]
     /\ CleanupLeaves("deleteTokens") =>
          /\ challenges' = challenges
          /\ \A k \in DOMAIN tokens :
               /\ tokens[k] <= cleaner.at => k \notin DOMAIN tokens'
               /\ tokens[k] > now => k \in DOMAIN tokens' /\ tokens'[k] = tokens[k]
     /\ CleanupEndsAtOnce /\ hooks = BothHooks =>
          /\ \A k \in DOMAIN challenges' : challenges'[k].expires > now'
          /\ \A k \in DOMAIN tokens' : tokens'[k] > now']_vars

\* cleanup has removed an expired challenge and left an unexpired one behind
C11_Witness ==
  /\ cleaner.pc = "done"
  /\ cleaner.at = now
  /\ \E k \in cleaner.removed : \E i \in 1..Len(TokenSeq) : k = TokenSeq[i]
  /\ \E k \in DOMAIN challenges : challenges[k].expires > now

\* C12: cleanup recurs for as long as the Durable Object lives: once an
\* alarm-triggered cleanup has completed, an alarm is pending again at some
\* later time, so that another cleanup follows and expired records go.
C12_CleanupRecurs ==
  (cleaner.pc = "done") ~> (alarm # NoAlarm)

\* this step belongs to cleanup()
CleanupStep == cleaner' # cleaner

\* C13: when exactly one store has no listExpired, cleanup() leaves that store
\* alone, warns about it, and still deletes every expired record of the other
\* store and completes.
C13_MissingHalfSkipped ==
  [][/\ CleanupStep /\ ~hooks.challenges => challenges' = challenges
     /\ CleanupStep /\ ~hooks.tokens => tokens' = tokens
     /\ CleanupStep /\ cleaner.pc = "idle" /\ ~hooks.challenges /\ hooks.tokens =>
          cleaner'.pc = "deleteTokens" /\ cleaner'.list = {k \in DOMAIN tokens : tokens[k] <= now}
     /\ CleanupEndsAtOnce /\ ~hooks.challenges /\ hooks.tokens =>
          /\ cleaner'.warned = {"challenges"}
          /\ \A k \in DOMAIN tokens' : tokens'[k] > now'
     /\ CleanupEndsAtOnce /\ hooks.challenges /\ ~hooks.tokens =>
          /\ cleaner'.warned = {"tokens"}
          /\ \A k \in DOMAIN challenges' : challenges'[k].expires > now']_vars

\* without listExpired for challenges, cleanup has ended having removed a token
C13_Witness ==
  /\ cleaner.pc = "done"
  /\ cleaner.at = now
  /\ ~hooks.challenges
  /\ cleaner.warned = {"challenges"}
  /\ cleaner.removed # {}
  /\ \E k \in DOMAIN challenges : challenges[k].expires <= now

\* the parameters and expiry createChallenge owes its caller for conf
Owed(conf, result) ==
  /\ result.kind = "returned"
  /\ result.challenge.c = (IF conf.challengeCount = Unset THEN 50 ELSE conf.challengeCount)
  /\ result.challenge.s = (IF conf.challengeSize = Unset THEN 32 ELSE conf.challengeSize)
  /\ result.challenge.d = (IF conf.challengeDifficulty = Unset THEN 4 ELSE conf.challengeDifficulty)
  /\ result.expires = now + (IF conf.expiresMs = Unset THEN 600000 ELSE conf.expiresMs)

\* C14: createChallenge with store false returns the parameters and expiry,
\* no token, and writes nothing; with store true or unset it writes exactly
\* one challenge record, {parameters, expiry} under the returned token, and
\* changes nothing else.
C14_CreateWritesOneRecord ==
  [][\A c \in Calls :
       Starts(c, "create") =>
         LET conf == calls'[c].conf
             result == calls'[c].result
         IN /\ calls'[c].pc = "done"
            /\ Owed(conf, result)
            /\ tokens' = tokens
            /\ conf.store = "false" =>
                 /\ result.token = <<>>
                 /\ challenges' = challenges
                 /\ calls'[c].log = <<>>
            /\ conf.store # "false" =>
                 /\ result.token # <<>>
                 /\ result.token \notin DOMAIN challenges
                 /\ DOMAIN challenges' = DOMAIN challenges \cup {result.token}
                 /\ \A k \in DOMAIN challenges : challenges'[k] = challenges[k]
                 /\ challenges'[result.token].expires = result.expires
                 /\ JsonParse(challenges'[result.token].data) = result.challenge]_vars

\* a challenge has been stored beside the rows already in both tables
C14_Witness ==
  \E c \in Calls :
    /\ Done(c, "create")
    /\ calls[c].result.token \in DOMAIN challenges
    /\ DOMAIN challenges # {calls[c].result.token}
    /\ DOMAIN tokens # {}

\* C15: every key in the token store is id:hash(secret) for an issued secret;
\* no stored key is a token id:secret as handed to a client, and validateToken
\* of a stored key presented as a token does not succeed.
C15_StoredKeyIsNotAToken ==
  /\ \A key \in DOMAIN tokens :
       /\ \E id \in IdPool, k \in 1..MaxTokens :
            /\ key = id \o <<58>> \o HashTab[SecretSeq[k]]
            /\ key # id \o <<58>> \o SecretSeq[k]
       /\ \A t \in IssuedTokens : key # t.v
  /\ \A c \in Calls :
       Done(c, "validate") /\ calls[c].token.t = "string" /\ calls[c].token.v \in DOMAIN tokens =>
         ~calls[c].result.success

\* a key of the token store has been presented as a token and refused
C15_Witness ==
  \E c \in Calls :
    /\ Done(c, "validate")
    /\ calls[c].token.t = "string"
    /\ calls[c].token.v \in DOMAIN tokens
    /\ calls[c].log = <<"get">>
    /\ ~calls[c].result.success

\* 0-9 and a-f
HexCodes == (48..57) \cup (97..102)

\* C16: prng(seed, length) returns exactly length characters, all of 0-9a-f,
\* and returns the same string when called again with the same arguments; its
\* loop stops after the least number of eight-character rounds that reach
\* length.
C16_PrngHexOfLength ==
  /\ sample.pc \in {"once", "twice"} =>
       /\ Len(sample.first) = sample.length
       /\ \A i \in 1..Len(sample.first) : sample.first[i] \in HexCodes
       /\ Len(PrngLoop(fnv1a(sample.seed), <<>>, sample.length))
            = 8 * ((sample.length + 7) \div 8)
  /\ sample.pc = "twice" => sample.second = sample.first

\* prng has twice returned the same string, cut within a round of eight
C16_Witness ==
  /\ sample.pc = "twice"
  /\ sample.length % 8 # 0
  /\ sample.length > 8
  /\ sample.second = sample.first
  /\ Len(sample.first) = sample.length

\* C17: a record that listExpired returns (expiry at or before now) is refused
\* at read time: redeemChallenge of such a challenge returns
\* {success: false, message: 'Challenge invalid or expired'}, validateToken of
\* such a token returns {success: false}, and redeemChallenge's own check
\* refuses a challenge whose expiry equals now, as the others do.
C17_ExpiredRefusedAtRead ==
  [][\A c \in Calls :
       /\ Completes(c, "redeem") /\ calls'[c].listed =>
            calls'[c].result = Failure("Challenge invalid or expired")
       /\ Completes(c, "validate") /\ calls'[c].listed =>
            calls'[c].result = Failure("")
       /\ (/\ calls[c].op = "redeem"
           /\ calls[c].pc = "check"
           /\ calls'[c].pc # "check"
           /\ calls[c].data.present
           /\ calls[c].data.expires <= now) =>
            /\ calls'[c].pc = "done"
            /\ calls'[c].result = Failure("Challenge invalid or expired")]_vars

\* the table holds no unexpired row under the key
NoLiveRow(rows, key, expiry(_)) == key \notin DOMAIN rows \/ expiry(rows[key]) <= now

ChallengeExpiry(row) == row.expires

\* C18: however cleanup() interleaves with the request handlers, every record
\* it removes is expired when removed and every other record stays as it was;
\* an unexpired stored challenge is still found and redeemed with correct
\* solutions, an unexpired stored token is still found and validated, and a
\* redemption of a record that cleanup removed ends as one of an expired or
\* missing record does.
C18_CleanupRacesBenignly ==
  [][/\ CleanupStep =>
          /\ \A k \in DOMAIN challenges :
               IF k \in DOMAIN challenges' THEN challenges'[k] = challenges[k]
               ELSE challenges[k].expires <= now
          /\ \A k \in DOMAIN tokens :
               IF k \in DOMAIN tokens' THEN tokens'[k] = tokens[k] ELSE tokens[k] <= now
     /\ \A c \in Calls :
          /\ Starts(c, "redeem") /\ ~MalformedBody(calls'[c].token, calls'[c].solutions) =>
               IF NoLiveRow(challenges, calls'[c].token.v, ChallengeExpiry)
               THEN calls'[c].pc = "done" /\ calls'[c].result = Threw
               ELSE calls'[c].pc = "delete" /\ calls'[c].data.present
          /\ (/\ Completes(c, "redeem")
              /\ calls'[c].data.present
              /\ calls'[c].data.expires > now'
              /\ \A i \in 1..calls'[c].data.challenge.c : PuzzleSolved(calls'[c], i)) =>
               calls'[c].result.success
          /\ calls[c].op = "validate" /\ calls[c].pc = "get" /\ calls'[c].pc # "get" =>
               IF NoLiveRow(tokens, TokenKey(calls[c].token), LAMBDA row : row)
               THEN calls'[c].pc = "done" /\ calls'[c].result = Threw
               ELSE calls'[c].pc = "consume"
          /\ Completes(c, "validate") /\ calls[c].pc = "consume" /\ calls[c].tokenExpires > now =>
               calls'[c].result.success]_vars

\* a challenge that cleanup has just removed is presented for redemption
C18_Witness ==
  \E c \in Calls :
    /\ Done(c, "redeem")
    /\ cleaner.pc \in {"tokens", "deleteTokens"}
    /\ calls[c].token.v \in cleaner.removed
    /\ calls[c].result = Threw

\* C19: redeemChallenge deletes the challenge before it checks the solutions
\* and before it stores a token: whenever the token issued for a redemption of
\* challenge T is in the token store, T is not in the challenge store; and a
\* call past its delete that has not stored yet has left T gone and no token.
C19_DeleteBeforeIssue ==
  /\ \A key \in DOMAIN tokens \cap DOMAIN hist.issued :
       hist.issued[key].v \notin DOMAIN challenges
  /\ \A c \in Calls :
       /\ calls[c].op = "redeem" /\ calls[c].pc \in {"check", "verify", "issue"} =>
            /\ calls[c].token.v \notin DOMAIN challenges
            /\ calls[c].log = <<"read", "delete">>
            /\ \A id \in IdPool :
                 calls[c].pc = "issue" =>
                   id \o <<58>> \o HashTab[calls[c].vertoken] \notin DOMAIN tokens
       /\ Done(c, "redeem") /\ calls[c].result.success =>
            calls[c].log = <<"read", "delete", "store">>

\* a redemption has passed its delete and stored nothing yet
C19_Witness ==
  \E c \in Calls :
    /\ calls[c].op = "redeem"
    /\ calls[c].pc = "issue"
    /\ calls[c].token.v \notin DOMAIN challenges
    /\ DOMAIN tokens = {}

\* this step is one of the call in slot c, not the taking of its result
StepOf(c, op) == calls'[c] # calls[c] /\ calls'[c].op = op

\* the rows the table had are all still there, as they were
RowsKept(rows, rowsAfter) ==
  \A k \in DOMAIN rows : k \in DOMAIN rowsAfter /\ rowsAfter[k] = rows[k]

\* C20: the token store gains an entry only in a redeemChallenge call that
\* returns success, and exactly one in each such call; createChallenge, failed
\* redemptions and validateToken add nothing to it; createChallenge and
\* validateToken leave the challenge store's records as they were; and a
\* validateToken call that returns {success: false} leaves the token store
\* unchanged.
C20_TokenStoreFrame ==
  [][/\ DOMAIN tokens' \ DOMAIN tokens # {} =>
          \E c \in Calls : Completes(c, "redeem") /\ calls'[c].result.success
     /\ \A c \in Calls :
          /\ StepOf(c, "redeem") =>
               /\ RowsKept(tokens, tokens')
               /\ Cardinality(DOMAIN tokens' \ DOMAIN tokens)
                    = (IF calls'[c].pc = "done" /\ calls'[c].result.success THEN 1 ELSE 0)
          /\ StepOf(c, "create") =>
               tokens' = tokens /\ RowsKept(challenges, challenges')
          /\ StepOf(c, "validate") =>
               /\ DOMAIN tokens' \subseteq DOMAIN tokens
               /\ challenges' = challenges
               /\ ~(calls'[c].pc = "done" /\ calls'[c].result.success) => tokens' = tokens]_vars

\* a successful redemption has added one key to a token store that held one
C20_Witness ==
  \E c \in Calls :
    /\ Done(c, "redeem")
    /\ calls[c].result.success
    /\ Cardinality(DOMAIN tokens) = 2
    /\ calls[c].log = <<"read", "delete", "store">>

====
